---- MODULE Spec2Model ----
(***************************************************************************)
(* Staged likelihood fitting of rhoOph_analysis.py: ParamChange (parameter *)
(* state controller), LikeFit (optimizer invoker), IterateFit (five-stage   *)
(* scheduler) and main (model-comparison cascade), run by the module-level  *)
(* loop over the templates of `gas`.                                        *)
(*                                                                         *)
(* The likelihood backend (BinnedAnalysis / pyLikelihood) is outside the    *)
(* repository.  It is modelled by what the code asks of it: a model is a    *)
(* set of source names and a 0-indexed list of parameters, each owned by    *)
(* one source and carrying a free/frozen flag; a fit returns a             *)
(* log-likelihood or raises.                                                *)
(*                                                                         *)
(* Text on which the code calls .lower() is a sequence of one-character     *)
(* strings, so that the case folding is computed, not assumed.              *)
(*                                                                         *)
(* main writes its lists as literals: the point sources, the diffuse        *)
(* sources and the two names it deletes.  The model runs the module as      *)
(* shipped, with those literals, and also runs main's rounds with the       *)
(* lists and the removal order as parameters, so that the paths the         *)
(* literals never take (an emptied diffuse list, a removal the model does   *)
(* not hold) are exercised through the same code.  ParamChange and LikeFit  *)
(* are also called directly, on arguments main never passes.                *)
(***************************************************************************)
EXTENDS Integers, Sequences, FiniteSets, TLC

\* ------------------------------------------------------------------ bounds

\* Longest point-source list of a general configuration.
MaxPS == 2
\* Most parameters a source of a model file has.
MaxPars == 2
\* Longest removal order of a general configuration.
MaxRemovals == 2
\* Most sources of a model ParamChange and LikeFit are called on directly.
MaxSrc == 3
\* Longest source list ParamChange is called on directly.
MaxSr == 2

\* ------------------------------------------------------------------- text

Upper == <<"A","B","C","D","E","F","G","H","I","J","K","L","M",
           "N","O","P","Q","R","S","T","U","V","W","X","Y","Z">>
Lowercase == <<"a","b","c","d","e","f","g","h","i","j","k","l","m",
               "n","o","p","q","r","s","t","u","v","w","x","y","z">>

\* str.lower() on one character: an upper-case letter maps to its lower-case
\* letter, every other character is kept.
lowerChar(c) ==
    IF \E i \in 1..26 : Upper[i] = c
    THEN Lowercase[CHOOSE i \in 1..26 : Upper[i] = c]
    ELSE c

\* str.lower()
lower(s) == [i \in 1..Len(s) |-> lowerChar(s[i])]

\* The optimizer names the code compares with (lines 62, 65, 68).
newminuit == <<"n","e","w","m","i","n","u","i","t">>
minuit == <<"m","i","n","u","i","t">>
drmnfb == <<"d","r","m","n","f","b">>
\* The optimizer names the code passes (lines 86, 91, 95, 98, 102, 177).
DRMNFB == <<"D","R","M","N","F","B">>
NewMinuit == <<"N","e","w","M","i","n","u","i","t">>
Minuit == <<"M","i","n","u","i","t">>
\* The change modes of ParamChange (lines 105, 121).
thaw_ == <<"t","h","a","w">>
freeze_ == <<"f","r","e","e","z","e">>

\* ---------------------------------------------------------------- backend

\* Names of the parameters of a source's spectrum, in the backend's order.
ParNames == <<"Normalization", "Index", "Scale", "Cutoff">>

\* The parameters of one source with n spectral parameters, all with the
\* given flag.
SrcParams(s, n, fr) ==
    [k \in 1..n |-> [src |-> s, name |-> ParNames[k], free |-> fr,
                     bounds |-> "file", value |-> "file"]]

RECURSIVE ConcatParams(_, _, _)
\* The parameter list of a model whose sources are `srcs` (in file order),
\* source k having npar[k] parameters with flag fr[k].
ConcatParams(srcs, npar, fr) ==
    IF srcs = <<>> THEN <<>>
    ELSE SrcParams(Head(srcs), Head(npar), Head(fr))
         \o ConcatParams(Tail(srcs), Tail(npar), Tail(fr))

Range(s) == {s[i] : i \in DOMAIN s}

\* A likelihood object as BinnedAnalysis builds it from a model file.
BinnedAnalysis(srcs, npar, fr) ==
    [srcs |-> Range(srcs), params |-> ConcatParams(srcs, npar, fr)]

\* A slip: the flag is flipped, not cleared.
freeze_flip(like, i) ==
    [like EXCEPT !.params[i + 1].free = ~like.params[i + 1].free]

\* like.freeze(i), i 0-based
freeze(like, i) ==
    [like EXCEPT !.params[i + 1].free = FALSE]

\* A slip: thawing puts the parameter back to the value of the file.
thaw_reset(like, i) ==
    [like EXCEPT !.params[i + 1].free = TRUE, !.params[i + 1].value = "file"]

\* like.thaw(i), i 0-based
thaw(like, i) ==
    [like EXCEPT !.params[i + 1].free = TRUE]

\* like.model[src].funcs['Spectrum'].paramNames
paramNames(like, src) ==
    LET idx == {i \in DOMAIN like.params : like.params[i].src = src}
        ord == CHOOSE q \in [1..Cardinality(idx) -> idx] :
                   \A a, b \in 1..Cardinality(idx) : a < b => q[a] < q[b]
    IN [k \in 1..Cardinality(idx) |-> like.params[ord[k]].name]

\* like.par_index(src, par), 0-based
par_index(like, src, par) ==
    (CHOOSE i \in DOMAIN like.params :
        like.params[i].src = src /\ like.params[i].name = par) - 1

\* A slip: the source stays in the model, its parameters frozen.
deleteSource_freeze(like, src) ==
    [like EXCEPT !.params =
        [i \in DOMAIN like.params |->
            IF like.params[i].src = src
            THEN [like.params[i] EXCEPT !.free = FALSE]
            ELSE like.params[i]]]

\* like.deleteSource(src): the source and its parameters leave the model and
\* the later parameters move down.
deleteSource(like, src) ==
    [srcs |-> like.srcs \ {src},
     params |-> SelectSeq(like.params, LAMBDA p : p.src # src)]

\* The 0-based indices of the thawed parameters.
Thawed(like) == {i - 1 : i \in {j \in DOMAIN like.params : like.params[j].free}}

\* The 0-based index of the first parameter of a source.
FirstPar(like, src) ==
    CHOOSE i \in 0..(Len(like.params) - 1) :
        /\ like.params[i + 1].src = src
        /\ \A j \in 0..(i - 1) : like.params[j + 1].src # src

min(S) == CHOOSE x \in S : \A y \in S : x <= y
max(S) == CHOOSE x \in S : \A y \in S : x >= y

\* ------------------------------------------------------------ ParamChange

RECURSIVE FreezeLoop_from1(_, _)
\* A slip: the loop starts at the second parameter.
FreezeLoop_from1(like, i) ==
    IF i + 1 >= Len(like.params) THEN like
    ELSE FreezeLoop_from1(freeze(like, i + 1), i + 1)

RECURSIVE FreezeLoop(_, _)
\* for i in xrange(len(like.model.params)): like.freeze(i)
FreezeLoop(like, i) ==
    IF i >= Len(like.params) THEN like
    ELSE FreezeLoop(freeze(like, i), i + 1)

\* A slip: the highest index of the source's parameters, not the lowest.
ParInd_max(like, src) ==
    LET pars == paramNames(like, src)
    IN max({par_index(like, src, pars[k]) : k \in DOMAIN pars})

\* par_ind = min(map(like.par_index, [src]*len(pars), pars))
ParInd(like, src) ==
    LET pars == paramNames(like, src)
    IN min({par_index(like, src, pars[k]) : k \in DOMAIN pars})

RECURSIVE ThawLoop_skip(_, _, _)
\* A slip: a name the model does not hold is passed over.
ThawLoop_skip(like, sr, k) ==
    IF k > Len(sr) THEN [err |-> "none", like |-> like]
    ELSE IF sr[k] \notin like.srcs THEN ThawLoop_skip(like, sr, k + 1)
    ELSE IF paramNames(like, sr[k]) = <<>>
         THEN [err |-> "ValueError", like |-> like]
    ELSE ThawLoop_skip(thaw(like, ParInd(like, sr[k])), sr, k + 1)

RECURSIVE ThawLoop(_, _, _)
\* for src in sr: ... like.thaw(par_ind); a name the model does not hold
\* makes like.model[src] raise, and min() of no parameters raises ValueError.
ThawLoop(like, sr, k) ==
    IF k > Len(sr) THEN [err |-> "none", like |-> like]
    ELSE IF sr[k] \notin like.srcs THEN [err |-> "NotFound", like |-> like]
    ELSE IF paramNames(like, sr[k]) = <<>>
         THEN [err |-> "ValueError", like |-> like]
    ELSE ThawLoop(thaw(like, ParInd(like, sr[k])), sr, k + 1)

\* A slip: the empty list is checked after the freeze loop.
ParamChange_checklate(like, sr, change) ==
    LET frozen == FreezeLoop(like, 0)
    IN IF Len(sr) = 0 THEN [err |-> "ValueError", like |-> frozen]
       ELSE IF lower(change) = thaw_
            THEN ThawLoop(frozen, sr, 1)
            ELSE [err |-> "none", like |-> frozen]

\* A slip: the listed sources are thawed whatever the mode.
ParamChange_anymode(like, sr, change) ==
    IF Len(sr) = 0 THEN [err |-> "ValueError", like |-> like]
    ELSE ThawLoop(FreezeLoop(like, 0), sr, 1)

\* A slip: no check of the empty list.
ParamChange_nocheck(like, sr, change) ==
    LET frozen == FreezeLoop(like, 0)
    IN IF lower(change) = thaw_
       THEN ThawLoop(frozen, sr, 1)
       ELSE [err |-> "none", like |-> frozen]

\* ParamChange(like, sr, change): the outcome (err) and the model after it.
ParamChange(like, sr, change) ==
    IF Len(sr) = 0 THEN [err |-> "ValueError", like |-> like]
    ELSE LET frozen == FreezeLoop(like, 0)
         IN IF lower(change) = thaw_
            THEN ThawLoop(frozen, sr, 1)
            ELSE [err |-> "none", like |-> frozen]

\* ---------------------------------------------------------------- LikeFit

\* What the backend's like.fit answers: a log-likelihood, in units of 1e-5,
\* or a failure.
LLValues == {-1234567, -1234561}
FitOutcomes == [ok : {TRUE}, val : LLValues] \cup {[ok |-> FALSE, val |-> 0]}

\* like.fit(...) that converged: the backend moves the free parameters to
\* their fitted values and leaves the frozen ones alone.
fit_(like) ==
    [like EXCEPT !.params =
        [i \in DOMAIN like.params |->
            IF like.params[i].free
            THEN [like.params[i] EXCEPT !.value = "fitted"]
            ELSE like.params[i]]]

\* A slip: a failure of the backend's fit is swallowed.
LikeFit_swallow(like, fit, out) ==
    LET call(cv, opt) ==
            [err |-> "none",
             lglike |-> out.val,
             calls |-> <<[covar |-> cv, optObject |-> opt,
                          thawed |-> Thawed(like)]>>,
             like |-> IF out.ok THEN fit_(like) ELSE like]
    IN IF lower(fit) = newminuit THEN call(TRUE, "NewMinuit")
       ELSE IF lower(fit) = minuit THEN call(TRUE, "Minuit")
       ELSE IF lower(fit) = drmnfb THEN call(FALSE, "default")
       ELSE [err |-> "KeyError", lglike |-> 0, calls |-> <<>>, like |-> like]

\* A slip: the name is compared as written, without lower().
LikeFit_cased(like, fit, out) ==
    LET call(cv, opt) ==
            [err |-> IF out.ok THEN "none" ELSE "BackendFitFailure",
             lglike |-> out.val,
             calls |-> <<[covar |-> cv, optObject |-> opt,
                          thawed |-> Thawed(like)]>>,
             like |-> IF out.ok THEN fit_(like) ELSE like]
    IN IF fit = newminuit THEN call(TRUE, "NewMinuit")
       ELSE IF fit = minuit THEN call(TRUE, "Minuit")
       ELSE IF fit = drmnfb THEN call(FALSE, "default")
       ELSE [err |-> "KeyError", lglike |-> 0, calls |-> <<>>, like |-> like]

\* LikeFit(like, fit) against a backend answering `out`: the outcome, the
\* value returned, the backend fit calls made (covar, optObject) and the
\* likelihood object returned with it.
LikeFit(like, fit, out) ==
    LET call(cv, opt) ==
            [err |-> IF out.ok THEN "none" ELSE "BackendFitFailure",
             lglike |-> out.val,
             calls |-> <<[covar |-> cv, optObject |-> opt,
                          thawed |-> Thawed(like)]>>,
             like |-> IF out.ok THEN fit_(like) ELSE like]
    IN IF lower(fit) = newminuit THEN call(TRUE, "NewMinuit")
       ELSE IF lower(fit) = minuit THEN call(TRUE, "Minuit")
       ELSE IF lower(fit) = drmnfb THEN call(FALSE, "default")
       ELSE [err |-> "KeyError", lglike |-> 0, calls |-> <<>>, like |-> like]


\* --------------------------------------------------------------- main data

\* round(x, 4) of a log-likelihood held in units of 1e-5: to the nearest
\* multiple of 10, halves away from zero.
round4(x) ==
    IF x >= 0 THEN ((x + 5) \div 10) * 10
    ELSE -(((-x + 5) \div 10) * 10)

\* The run keys of main (lines 143-158), lower case.
tau353 == <<"t","a","u","3","5","3">>
nicer == <<"n","i","c","e","r">>
nicest == <<"n","i","c","e","s","t">>
dobdss == <<"d","o","b","d","s","s">>
dob2mass == <<"d","o","b","2","m","a","s","s">>
fermi == <<"f","e","r","m","i">>

\* The templates of the module-level loop (line 217).
gas_ == << <<"D","o","b","D","S","S">>, <<"D","o","b","2","M","A","S","S">> >>

\* The point sources and the diffuse sources of main (lines 135-140).
PS_ == <<"3FGL J1621.1-2331", "3FGL J1628.0-3203", "3FGL J1614.5-2231",
         "3FGL J1617.3-2519", "3FGL J1714.6-3327", "3FGL J1616.8-2300",
         "3FGL J1626.0-2951", "3FGL J1625.7-2527", "3FGL J1553.3-2421",
         "3FGL J1645.7-2149", "3FGL J1625.6-2058">>
diff_src_ == <<"HI", "bubble", "eg_v05", "galprop">>
\* The sources main deletes, in its order (lines 186, 197).
removalOrder_ == <<"bubble", "HI">>

\* A slip: the key is compared as written, without lower().
KeyDispatch_cased(A) ==
    IF A = tau353 THEN [err |-> "none", direc |-> "Tau353", diff_name |-> "Tau353"]
    ELSE IF A = nicer THEN [err |-> "none", direc |-> "NICER", diff_name |-> "NICER"]
    ELSE IF A = nicest THEN [err |-> "none", direc |-> "NICEST", diff_name |-> "NICEST"]
    ELSE IF A = dobdss THEN [err |-> "none", direc |-> "DobDSS", diff_name |-> "Dobashi DSS"]
    ELSE IF A = dob2mass THEN [err |-> "none", direc |-> "Dob2MASS", diff_name |-> "Dobashi 2MASS"]
    ELSE IF A = fermi THEN [err |-> "none", direc |-> "fermi", diff_name |-> "fermi"]
    ELSE [err |-> "KeyError", direc |-> "", diff_name |-> ""]

\* The key dispatch of main (lines 143-164): direc and diff_name, or the
\* KeyError of the else branch.
KeyDispatch(A) ==
    IF lower(A) = tau353 THEN [err |-> "none", direc |-> "Tau353", diff_name |-> "Tau353"]
    ELSE IF lower(A) = nicer THEN [err |-> "none", direc |-> "NICER", diff_name |-> "NICER"]
    ELSE IF lower(A) = nicest THEN [err |-> "none", direc |-> "NICEST", diff_name |-> "NICEST"]
    ELSE IF lower(A) = dobdss THEN [err |-> "none", direc |-> "DobDSS", diff_name |-> "Dobashi DSS"]
    ELSE IF lower(A) = dob2mass THEN [err |-> "none", direc |-> "Dob2MASS", diff_name |-> "Dobashi 2MASS"]
    ELSE IF lower(A) = fermi THEN [err |-> "none", direc |-> "fermi", diff_name |-> "fermi"]
    ELSE [err |-> "KeyError", direc |-> "", diff_name |-> ""]

\* The directory the run's files go to (lines 168-173, 180-183): the
\* working directory for 'fermi', direc otherwise.
OutDir(direc) == IF direc = "fermi" THEN "." ELSE direc

\* list.index(x): the 1-based place of the first x (0 when there is none,
\* where Python raises ValueError).
index(l, x) ==
    IF \E i \in DOMAIN l : l[i] = x
    THEN min({i \in DOMAIN l : l[i] = x})
    ELSE 0

\* A slip: list.pop() without the place, which drops the last element.
pop_last(l, i) == SubSeq(l, 1, Len(l) - 1)

\* list.pop(i), i a 1-based place of l: the list without that element.
pop(l, i) == SubSeq(l, 1, i - 1) \o SubSeq(l, i + 1, Len(l))

\* MakeLike(predir, direc, fit) on a model file holding the sources `srcs`:
\* the optimizer check of lines 32-39 and the change to the isotropic
\* source's normalization bounds of lines 42-50.
MakeLike(direc, fit, srcs, npar, fr) ==
    LET like == BinnedAnalysis(srcs, npar, fr)
    IN IF lower(fit) \notin {newminuit, drmnfb, minuit}
       THEN [err |-> "KeyError", like |-> like]
       ELSE IF direc = "fermi" THEN [err |-> "none", like |-> like]
       ELSE IF "eg_v05" \notin like.srcs THEN [err |-> "NotFound", like |-> like]
       ELSE [err |-> "none",
             like |-> [like EXCEPT
                 !.params[par_index(like, "eg_v05", "Normalization") + 1].bounds
                     = "0.2-1.3"]]

\* ----------------------------------------------------------- IterateFit data

\* The five stages of IterateFit (lines 84-102): the list ParamChange thaws
\* first ("none": no ParamChange, the lists of the stage before stay
\* active), the optimizer, and the local the fit's value is assigned to.
IterateFitStages ==
    << [sr |-> "PS",       fit |-> DRMNFB,    var |-> "lglike1_ps"],
       [sr |-> "diff_src", fit |-> DRMNFB,    var |-> "lglike1_diff"],
       [sr |-> "none",     fit |-> NewMinuit, var |-> "lglike_diff_newmin"],
       [sr |-> "PS",       fit |-> DRMNFB,    var |-> "lglike_ps2"],
       [sr |-> "diff_src", fit |-> NewMinuit, var |-> "lglike_diff_newmin"] >>

\* A slip: the value of the second point-source fit is returned.
IterateFitReturns_ps2 == "lglike_ps2"

\* The local IterateFit returns (line 103).
IterateFitReturns == "lglike_diff_newmin"

\* The locals of IterateFit before any is assigned.
NoLocals ==
    [lglike1_ps |-> "unset", lglike1_diff |-> "unset",
     lglike_diff_newmin |-> "unset", lglike_ps2 |-> "unset"]

\* No likelihood object yet.
NoLike == [srcs |-> {}, params |-> <<>>]

\* ------------------------------------------------------------------ state

VARIABLES
    cfg,        \* the run's inputs: gas, PS, diff_src, removalOrder, missing
    tpl,        \* module loop: the place in gas of the current template
    pc,         \* where the program is
    direc,      \* main: direc
    diff_name,  \* main: diff_name
    diff_src,   \* main: diff_src
    rnd,        \* main: the round (0: all sources), rounds 1.. remove one each
    like,       \* the likelihood object
    stage,      \* IterateFit: the stage, 1..5
    lg,         \* IterateFit: its locals
    fits,       \* the backend fit calls of the current IterateFit call
    lglike,     \* main: the value IterateFit returned last
    opened,     \* the files opened
    f,          \* the lines written to LogLike.dat files
    g,          \* the lines written to README files
    xml,        \* the models written by writeXml
    err,        \* the exception that ended the program, or "none"
    sched,      \* the IterateFit calls made: run, round and arguments
    h           \* harness: the arguments and the results of direct calls

vars == <<cfg, tpl, pc, direc, diff_name, diff_src, rnd, like, stage, lg,
          fits, lglike, opened, f, g, xml, err, sched, h>>

\* Sequences of s, of length at most n, without repeats.
RECURSIVE SeqsNoDup(_, _)
SeqsNoDup(S, n) ==
    IF n = 0 THEN {<<>>}
    ELSE LET shorter == SeqsNoDup(S, n - 1)
             longer == {Append(q, x) : q \in shorter, x \in S}
         IN shorter \cup
            {q \in longer : \A i, j \in DOMAIN q : i < j => q[i] # q[j]}

Prefixes(l, n) == {SubSeq(l, 1, k) : k \in 0..(IF n < Len(l) THEN n ELSE Len(l))}

\* The template lists the module is run with: the shipped one, single keys
\* in other letter cases, an unknown one, and a key followed by an unknown
\* one.
GasLists ==
    {gas_,
     << <<"d","o","b","d","s","s">> >>,
     << <<"F","e","r","m","i">> >>,
     << <<"T","A","U","3","5","3">> >>,
     << <<"N","i","c","e","r">> >>,
     << <<"n","i","c","e","s","t">> >>,
     << <<"R","h","o">> >>,
     << <<"N","I","C","E","S","T">>, <<"r","h","o","O","p","h">> >>}

\* The names a removal order is drawn from.
RemovalNames == {"bubble", "HI", "Dobashi DSS"}
\* The source a model file may lack.
MissingNames == {"none", "HI", "bubble", "eg_v05", PS_[1]}

\* The module as shipped: the lists of main as written.
ShippedConfigs ==
    [gas : GasLists, PS : {PS_}, diff_src : {diff_src_},
     removalOrder : {removalOrder_}, missing : {"none"}]

\* main's cascade for one template with its lists as parameters.
CascadeConfigs ==
    [gas : {<<gas_[1]>>}, PS : Prefixes(PS_, MaxPS),
     diff_src : Prefixes(diff_src_, Len(diff_src_)),
     removalOrder : SeqsNoDup(RemovalNames, MaxRemovals),
     missing : MissingNames]

\* The sources of the model file MakeLike reads: the diffuse sources, the
\* template's source, a source no list names, and the point sources, less
\* the one the file lacks.
FileSrcs(c, dn) ==
    SelectSeq(diff_src_ \o <<dn, "other">> \o c.PS, LAMBDA n : n # c.missing)
\* The file gives the sources one to MaxPars parameters, free or frozen.
FileNpar(srcs) == [k \in DOMAIN srcs |-> 1 + (k % MaxPars)]
FileFree(srcs) == [k \in DOMAIN srcs |-> k % 2 = 1]

NoHarness == [fn |-> "none"]

Init ==
    /\ cfg \in ShippedConfigs \cup CascadeConfigs
    /\ tpl = 0
    /\ pc = "loop"
    /\ direc = ""
    /\ diff_name = ""
    /\ diff_src = <<>>
    /\ rnd = 0
    /\ like = NoLike
    /\ stage = 0
    /\ lg = NoLocals
    /\ fits = <<>>
    /\ lglike = "unset"
    /\ opened = {}
    /\ f = <<>>
    /\ g = <<>>
    /\ xml = <<>>
    /\ err = "none"
    /\ sched = <<>>
    /\ h = NoHarness

\* ---------------------------------------------------------------- actions

\* The uncaught exception e ends the program.
Raise(e) == pc' = "failed" /\ err' = e

\* The names main has removed when round r runs; the label of the round's
\* records ('ALL', 'NO bubble', 'NO bubble OR HI'; mdl_all.xml,
\* mdl_noBubble.xml, mdl_noBubble_noHI.xml).
Removed(r) == SubSeq(cfg.removalOrder, 1, r)

\* A slip: the last removal is left out.
MoreRounds_short(r) == r + 1 < Len(cfg.removalOrder)

\* main, lines 185 and 196: after round r another source is removed and
\* another round run, until every name of the removal order is processed.
MoreRounds(r) == r < Len(cfg.removalOrder)

\* The call IterateFit(like, PS, diff_src) of round r is entered.
EnterIterateFit(r, d) ==
    /\ pc' = "activate"
    /\ stage' = 1
    /\ lg' = NoLocals
    /\ fits' = <<>>
    /\ sched' = Append(sched, [run |-> tpl, round |-> r, PS |-> cfg.PS,
                               diff_src |-> d])

\* for template in gas: main(template)   (lines 219-224)
ModuleLoop ==
    /\ pc = "loop"
    /\ IF tpl < Len(cfg.gas)
       THEN tpl' = tpl + 1 /\ pc' = "main"
       ELSE tpl' = tpl /\ pc' = "done"
    /\ UNCHANGED <<cfg, direc, diff_name, diff_src, rnd, like, stage, lg, fits,
                   lglike, opened, f, g, xml, err, sched, h>>

\* A slip: diff_src is one list built once for all calls of main, so a
\* later call starts from what the call before it left.
MainSetup_shared ==
    /\ pc = "main"
    /\ LET k == KeyDispatch(cfg.gas[tpl])
       IN IF k.err # "none"
          THEN /\ Raise(k.err)
               /\ UNCHANGED <<direc, diff_name, diff_src, rnd, opened>>
          ELSE /\ direc' = k.direc
               /\ diff_name' = k.diff_name
               /\ diff_src' = Append(IF tpl = 1 THEN cfg.diff_src ELSE diff_src,
                                     k.diff_name)
               /\ rnd' = 0
               /\ opened' = opened \cup {<<OutDir(k.direc), "LogLike.dat">>,
                                        <<OutDir(k.direc), "README">>}
               /\ pc' = "start"
               /\ err' = err
    /\ UNCHANGED <<cfg, tpl, like, stage, lg, fits, lglike, f, g, xml, sched, h>>

\* main, lines 130-173: the lists, the key dispatch, the append of
\* diff_name and the two files opened for appending.
MainSetup ==
    /\ pc = "main"
    /\ LET k == KeyDispatch(cfg.gas[tpl])
       IN IF k.err # "none"
          THEN /\ Raise(k.err)
               /\ UNCHANGED <<direc, diff_name, diff_src, rnd, opened>>
          ELSE /\ direc' = k.direc
               /\ diff_name' = k.diff_name
               /\ diff_src' = Append(cfg.diff_src, k.diff_name)
               /\ rnd' = 0
               /\ opened' = opened \cup {<<OutDir(k.direc), "LogLike.dat">>,
                                        <<OutDir(k.direc), "README">>}
               /\ pc' = "start"
               /\ err' = err
    /\ UNCHANGED <<cfg, tpl, like, stage, lg, fits, lglike, f, g, xml, sched, h>>

\* main, lines 176-178: the README line, MakeLike and the call of IterateFit
\* for round 0.
MainStart ==
    /\ pc = "start"
    /\ g' = Append(g, [run |-> tpl, file |-> <<OutDir(direc), "README">>,
                       text |-> "Starting", removed |-> Removed(0)])
    /\ LET srcs == FileSrcs(cfg, diff_name)
           m == MakeLike(direc, DRMNFB, srcs, FileNpar(srcs), FileFree(srcs))
       IN IF m.err # "none"
          THEN /\ Raise(m.err)
               /\ UNCHANGED <<like, stage, lg, fits, sched>>
          ELSE /\ like' = m.like
               /\ err' = err
               /\ EnterIterateFit(0, diff_src)
    /\ UNCHANGED <<cfg, tpl, direc, diff_name, diff_src, rnd, lglike, opened,
                   f, xml, h>>

\* IterateFit, lines 84, 89, 96, 101: like = ParamChange(like, ..., 'thaw')
Activate ==
    /\ pc = "activate"
    /\ LET st == IterateFitStages[stage]
           r == ParamChange(like, IF st.sr = "PS" THEN cfg.PS ELSE diff_src,
                            thaw_)
       IN /\ like' = r.like
          /\ IF r.err # "none"
             THEN Raise(r.err)
             ELSE pc' = "fit" /\ err' = err
    /\ UNCHANGED <<cfg, tpl, direc, diff_name, diff_src, rnd, stage, lg, fits,
                   lglike, opened, f, g, xml, sched, h>>

\* IterateFit, lines 86, 91, 95, 98, 102-103: lglike..., like = LikeFit(...),
\* and after the fifth the return to main.
Fit ==
    /\ pc = "fit"
    /\ \E o \in FitOutcomes :
        LET st == IterateFitStages[stage]
            r == LikeFit(like, st.fit, o)
        IN /\ fits' = fits \o [i \in DOMAIN r.calls |->
                                  [stage |-> stage, ok |-> o.ok, val |-> o.val,
                                   covar |-> r.calls[i].covar,
                                   optObject |-> r.calls[i].optObject,
                                   thawed |-> r.calls[i].thawed]]
           /\ like' = r.like
           /\ IF r.err # "none"
              THEN /\ Raise(r.err)
                   /\ UNCHANGED <<stage, lg, lglike>>
              ELSE /\ lg' = [lg EXCEPT ![st.var] = r.lglike]
                   /\ err' = err
                   /\ IF stage = Len(IterateFitStages)
                      THEN /\ lglike' = lg'[IterateFitReturns]
                           /\ pc' = "write"
                           /\ stage' = stage
                      ELSE /\ stage' = stage + 1
                           /\ pc' = IF IterateFitStages[stage + 1].sr = "none"
                                    THEN "fit" ELSE "activate"
                           /\ lglike' = lglike
    /\ UNCHANGED <<cfg, tpl, direc, diff_name, diff_src, rnd, opened,
                   f, g, xml, sched, h>>

\* A slip: the round's log-likelihood line is not written.
RoundWrite_skip ==
    /\ pc = "write"
    /\ pc' = "xml"
    /\ UNCHANGED <<cfg, tpl, direc, diff_name, diff_src, rnd, like, stage, lg,
                   fits, lglike, opened, f, g, xml, err, sched, h>>

\* A slip: the log is rewritten from its start at every write, as a file
\* opened in 'w' mode at each round would be.
RoundWrite_rewrite ==
    /\ pc = "write"
    /\ f' = <<[run |-> tpl, file |-> <<OutDir(direc), "LogLike.dat">>,
               removed |-> Removed(rnd), ll |-> round4(lglike)]>>
    /\ pc' = "xml"
    /\ UNCHANGED <<cfg, tpl, direc, diff_name, diff_src, rnd, like, stage, lg,
                   fits, lglike, opened, g, xml, err, sched, h>>

\* main, lines 179, 190, 201: f.write('Log(like) for ... = %s\n' % round(.., 4))
RoundWrite ==
    /\ pc = "write"
    /\ f' = Append(f, [run |-> tpl, file |-> <<OutDir(direc), "LogLike.dat">>,
                       removed |-> Removed(rnd), ll |-> round4(lglike)])
    /\ pc' = "xml"
    /\ UNCHANGED <<cfg, tpl, direc, diff_name, diff_src, rnd, like, stage, lg,
                   fits, lglike, opened, g, xml, err, sched, h>>

\* main, lines 180-183, 191-194, 202-205: like.writeXml(...)
RoundXml ==
    /\ pc = "xml"
    /\ xml' = Append(xml, [run |-> tpl, file |-> <<OutDir(direc), "mdl">>,
                           removed |-> Removed(rnd), model |-> like])
    /\ pc' = IF MoreRounds(rnd) THEN "delete" ELSE "finish"
    /\ UNCHANGED <<cfg, tpl, direc, diff_name, diff_src, rnd, like, stage, lg,
                   fits, lglike, opened, f, g, err, sched, h>>

\* A slip: a source the model does not hold is passed over in silence.
RoundDelete_silent ==
    /\ pc = "delete"
    /\ like' = deleteSource(like, cfg.removalOrder[rnd + 1])
    /\ pc' = "pop"
    /\ UNCHANGED <<cfg, tpl, direc, diff_name, diff_src, rnd, stage, lg, fits,
                   lglike, opened, f, g, xml, err, sched, h>>

\* main, lines 186, 197: like.deleteSource(...)
RoundDelete ==
    /\ pc = "delete"
    /\ LET name == cfg.removalOrder[rnd + 1]
       IN IF name \notin like.srcs
          THEN Raise("NotFound") /\ like' = like
          ELSE /\ like' = deleteSource(like, name)
               /\ pc' = "pop"
               /\ err' = err
    /\ UNCHANGED <<cfg, tpl, direc, diff_name, diff_src, rnd, stage, lg, fits,
                   lglike, opened, f, g, xml, sched, h>>

\* main, lines 187-189, 198-200: the README line, diff_src.pop(
\* diff_src.index(...)) and the call of IterateFit for the next round.
RoundPop ==
    /\ pc = "pop"
    /\ g' = Append(g, [run |-> tpl, file |-> <<OutDir(direc), "README">>,
                       text |-> "Starting ... removing",
                       removed |-> Removed(rnd + 1)])
    /\ LET name == cfg.removalOrder[rnd + 1]
           i == index(diff_src, name)
       IN IF i = 0
          THEN /\ Raise("ValueError")
               /\ UNCHANGED <<diff_src, rnd, stage, lg, fits, sched>>
          ELSE /\ diff_src' = pop(diff_src, i)
               /\ rnd' = rnd + 1
               /\ err' = err
               /\ EnterIterateFit(rnd + 1, pop(diff_src, i))
    /\ UNCHANGED <<cfg, tpl, direc, diff_name, like, lglike, opened, f, xml, h>>

\* main, lines 207-208: the last README lines; main returns.
MainFinish ==
    /\ pc = "finish"
    /\ g' = g \o <<[run |-> tpl, file |-> <<OutDir(direc), "README">>,
                    text |-> "Finished", removed |-> Removed(rnd)],
                   [run |-> tpl, file |-> <<OutDir(direc), "README">>,
                    text |-> "Timing", removed |-> Removed(rnd)]>>
    /\ pc' = "loop"
    /\ UNCHANGED <<cfg, tpl, direc, diff_name, diff_src, rnd, like, stage, lg,
                   fits, lglike, opened, f, xml, err, sched, h>>

Next ==
    \/ ModuleLoop
    \/ MainSetup
    \/ MainStart
    \/ Activate
    \/ Fit
    \/ RoundWrite
    \/ RoundXml
    \/ RoundDelete
    \/ RoundPop
    \/ MainFinish

Spec == Init /\ [][Next]_vars

\* ------------------------------------------------- direct calls (harnesses)

\* The state around a direct call of one function: no program run.
Idle ==
    /\ cfg = [gas |-> <<>>, PS |-> <<>>, diff_src |-> <<>>,
              removalOrder |-> <<>>, missing |-> "none"]
    /\ tpl = 0
    /\ pc = "call"
    /\ direc = ""
    /\ diff_name = ""
    /\ diff_src = <<>>
    /\ rnd = 0
    /\ stage = 0
    /\ lg = NoLocals
    /\ fits = <<>>
    /\ lglike = "unset"
    /\ opened = {}
    /\ f = <<>>
    /\ g = <<>>
    /\ xml = <<>>
    /\ err = "none"
    /\ sched = <<>>

\* Models of one to MaxSrc sources, every parameter free or frozen. The free
\* parameters hold fitted values, and the normalization of eg_v05 the bounds
\* MakeLike sets, so that the models differ in values and bounds too.
HNames == diff_src_ \o <<"other">> \o PS_
HLikes ==
    UNION {
        LET srcs == SubSeq(HNames, 1, n)
            base == BinnedAnalysis(srcs, FileNpar(srcs), FileFree(srcs))
        IN {[base EXCEPT !.params =
                [i \in DOMAIN base.params |->
                    [base.params[i] EXCEPT
                        !.free = fr[i],
                        !.value = IF fr[i] THEN "fitted" ELSE "file",
                        !.bounds = IF base.params[i].src = "eg_v05"
                                      /\ base.params[i].name = "Normalization"
                                   THEN "0.2-1.3" ELSE "file"]]] :
                fr \in [DOMAIN base.params -> BOOLEAN]}
        : n \in 1..MaxSrc}

\* Source lists over the names of those models and one name outside them.
HSrLists == SeqsNoDup(Range(SubSeq(HNames, 1, MaxSrc + 1)), MaxSr)

\* Change modes: 'thaw' in three letter cases, 'freeze', and another word.
HChanges == {thaw_, <<"T","h","a","w">>, <<"T","H","A","W">>, freeze_,
             <<"t","h","a","w","s">>}

InitParamChange ==
    /\ Idle
    /\ like \in HLikes
    /\ h \in [fn : {"ParamChange"}, sr : HSrLists, change : HChanges,
              out : {<<>>}]

\* ParamChange(like, sr, change), called up to twice on the same arguments.
CallParamChange ==
    /\ h.fn = "ParamChange"
    /\ Len(h.out) < 2
    /\ LET r == ParamChange(like, h.sr, h.change)
       IN /\ like' = r.like
          /\ h' = [h EXCEPT !.out = Append(@, [err |-> r.err, before |-> like,
                                               after |-> r.like])]
    /\ UNCHANGED <<cfg, tpl, pc, direc, diff_name, diff_src, rnd, stage, lg,
                   fits, lglike, opened, f, g, xml, err, sched>>

NextParamChange == CallParamChange

SpecParamChange == InitParamChange /\ [][NextParamChange]_vars

upperChar(c) ==
    IF \E i \in 1..26 : Lowercase[i] = c
    THEN Upper[CHOOSE i \in 1..26 : Lowercase[i] = c]
    ELSE c

RECURSIVE CaseVariants(_)
\* The spellings of s in every mix of letter cases.
CaseVariants(s) ==
    IF s = <<>> THEN {<<>>}
    ELSE {<<c>> \o t : c \in {s[1], upperChar(s[1])},
                       t \in CaseVariants(Tail(s))}

\* Optimizer names: the three the code knows, in every letter case, and
\* names it does not know.
HUnknownFits ==
    {<<>>, <<"f","a","s","t">>, <<"p","r","e","c","i","s","e">>,
     <<"m","i","n","u","i","t","2">>, <<"n","e","w","m","i","n","u","i">>,
     <<"n","e","w"," ","m","i","n","u","i","t">>, <<"d","r","m","n","f","b"," ">>,
     <<"M","I","N","U","I">>}
HFits == CaseVariants(newminuit) \cup CaseVariants(minuit)
            \cup CaseVariants(drmnfb) \cup HUnknownFits

InitLikeFit ==
    /\ Idle
    /\ like \in {l \in HLikes : Cardinality(l.srcs) = 1}
    /\ h \in [fn : {"LikeFit"}, fit : HFits, out : {<<>>}]

\* LikeFit(like, fit), called once; the backend answers with any outcome.
CallLikeFit ==
    /\ h.fn = "LikeFit"
    /\ Len(h.out) < 1
    /\ \E o \in FitOutcomes :
        LET r == LikeFit(like, h.fit, o)
        IN /\ h' = [h EXCEPT !.out = Append(@, [err |-> r.err, lglike |-> r.lglike,
                                                calls |-> r.calls, answer |-> o])]
           /\ like' = r.like
    /\ UNCHANGED <<cfg, tpl, pc, direc, diff_name, diff_src, rnd, stage,
                   lg, fits, lglike, opened, f, g, xml, err, sched>>

NextLikeFit == CallLikeFit

SpecLikeFit == InitLikeFit /\ [][NextLikeFit]_vars

\* ------------------------------------------------------------------ claims

Last(q) == q[Len(q)]
\* The records main wrote in run r.
RunF(r) == SelectSeq(f, LAMBDA x : x.run = r)
RunXml(r) == SelectSeq(xml, LAMBDA x : x.run = r)
\* The lowest parameter index of each source of a list.
LowestOf(l, sr) == {FirstPar(l, sr[k]) : k \in DOMAIN sr}

\* C1: one IterateFit call makes exactly five backend fits, in the order
\* point sources with the default (DRMNFB) optimizer, diffuse sources with
\* it, diffuse sources with NewMinuit and covariance, point sources with the
\* default optimizer, diffuse sources with NewMinuit and covariance; the
\* value it returns to main is the value of the fifth fit.
C1_FiveStagesInOrder ==
    pc \in {"activate", "fit", "write"} =>
        /\ Len(fits) <= 5
        /\ \A i \in DOMAIN fits :
            /\ fits[i].stage = i
            /\ fits[i].ok
            /\ fits[i].covar = (i \in {3, 5})
            /\ fits[i].optObject = (IF i \in {3, 5} THEN "NewMinuit" ELSE "default")
            /\ fits[i].thawed =
                   LowestOf(like, IF i \in {1, 4} THEN cfg.PS ELSE diff_src)
        /\ (pc = "write" => Len(fits) = 5 /\ lglike = fits[5].val)

\* C1 witness: a call returned, and its third and fifth fits differ in value.
C1_Witness ==
    /\ pc = "write"
    /\ Len(fits) = 5
    /\ fits[3].val # fits[5].val
    /\ fits[4].val # fits[5].val
    /\ lglike = fits[5].val

\* C2: after ParamChange(like, S, 'thaw') with S non-empty, without repeats
\* and naming only sources of the model, the thawed parameters are exactly
\* the lowest-indexed parameter of each source of S, |S| of them, whatever
\* was thawed before.
C2_ThawsLowestOfEach ==
    (/\ h.fn = "ParamChange"
     /\ Len(h.out) >= 1
     /\ h.change = thaw_
     /\ Len(h.sr) >= 1
     /\ Range(h.sr) \subseteq h.out[1].before.srcs)
    => /\ h.out[1].err = "none"
       /\ Thawed(h.out[1].after) = LowestOf(h.out[1].before, h.sr)
       /\ Cardinality(Thawed(h.out[1].after)) = Len(h.sr)
       /\ \A i \in DOMAIN h.out[1].after.params :
            (i - 1) \notin LowestOf(h.out[1].before, h.sr)
                => ~h.out[1].after.params[i].free

\* C2 witness: two sources were thawed in a model where, before the call,
\* a parameter that is not the lowest of its source was free and the lowest
\* parameter of a listed source was frozen.
C2_Witness ==
    /\ h.fn = "ParamChange"
    /\ Len(h.out) >= 1
    /\ h.change = thaw_
    /\ Len(h.sr) = 2
    /\ Range(h.sr) \subseteq h.out[1].before.srcs
    /\ \E i \in Thawed(h.out[1].before) :
            i \notin LowestOf(h.out[1].before, h.sr)
    /\ \E i \in LowestOf(h.out[1].before, h.sr) :
            i \notin Thawed(h.out[1].before)
    /\ Cardinality(Thawed(h.out[1].after)) = 2

\* C3: when every round of a run succeeded, main has processed every name
\* of the removal order and has written exactly 1 + |removalOrder| records,
\* one log-likelihood line and one model per round, in round order (three
\* for main's own removal order bubble, HI).
C3_OneRecordPerRound ==
    pc = "finish" =>
        /\ rnd = Len(cfg.removalOrder)
        /\ Len(RunF(tpl)) = 1 + Len(cfg.removalOrder)
        /\ Len(RunXml(tpl)) = 1 + Len(cfg.removalOrder)
        /\ \A k \in 1..(1 + Len(cfg.removalOrder)) :
            /\ RunF(tpl)[k].removed = SubSeq(cfg.removalOrder, 1, k - 1)
            /\ RunXml(tpl)[k].removed = SubSeq(cfg.removalOrder, 1, k - 1)
        /\ (cfg.removalOrder = <<"bubble", "HI">> => Len(RunF(tpl)) = 3)

\* C3 witness: the second template of the shipped list finished its three
\* rounds.
C3_Witness ==
    /\ pc = "finish"
    /\ tpl = 2
    /\ cfg.removalOrder = <<"bubble", "HI">>
    /\ Len(RunF(2)) = 3
    /\ Len(RunXml(2)) = 3

\* The IterateFit call of round 0 of the run of call e.
Round0Of(e) ==
    CHOOSE e0 \in Range(sched) : e0.run = e.run /\ e0.round = 0

\* C4: the diffuse list IterateFit is called with in round k is the list of
\* round 0 without the first k names of the removal order, in the same
\* order and one shorter per round; the calls of a run are rounds 0, 1, ...
\* in that order.
C4_DiffuseSetShrinksByOne ==
    \A i \in DOMAIN sched :
        LET e == sched[i]
            gone == Range(SubSeq(cfg.removalOrder, 1, e.round))
        IN /\ \E e0 \in Range(sched) : e0.run = e.run /\ e0.round = 0
           /\ e.diff_src = SelectSeq(Round0Of(e).diff_src, LAMBDA n : n \notin gone)
           /\ Len(e.diff_src) = Len(Round0Of(e).diff_src) - e.round
           /\ (i > 1 /\ sched[i - 1].run = e.run => e.round = sched[i - 1].round + 1)
           /\ (i > 1 /\ sched[i - 1].run # e.run => e.round = 0)
           /\ (i = 1 => e.round = 0)

\* C4 witness: removal order a, b on the list a, b, c gave the three calls
\* on a, b, c; on b, c; on c.
C4_Witness ==
    /\ Len(sched) = 3
    /\ cfg.removalOrder = <<"HI", "bubble">>
    /\ sched[1].diff_src = <<"HI", "bubble", "Dobashi DSS">>
    /\ sched[2].diff_src = <<"bubble", "Dobashi DSS">>
    /\ sched[3].diff_src = <<"Dobashi DSS">>

\* C5: ParamChange on an empty source list fails with ValueError, whatever
\* the model's flags and whatever the change mode.
C5_EmptyListFails ==
    (h.fn = "ParamChange" /\ Len(h.sr) = 0) =>
        \A k \in DOMAIN h.out : h.out[k].err = "ValueError"

\* C5 witness: the call failed in the default mode 'freeze' on a model with
\* a free parameter.
C5_Witness ==
    /\ h.fn = "ParamChange"
    /\ h.sr = <<>>
    /\ h.change = freeze_
    /\ Len(h.out) >= 1
    /\ h.out[1].err = "ValueError"
    /\ Thawed(h.out[1].before) # {}

\* The current IterateFit call was given an empty diffuse list.
EmptyDiffCall == sched # <<>> /\ Last(sched).diff_src = <<>>

\* C6: when the removals have emptied the diffuse list, the round's
\* IterateFit call makes at most the stage-1 fit, then fails with ValueError
\* at the ParamChange of stage 2; no stage-2 fit is made, and main writes no
\* record for that round: the failure ends the program.
C6_EmptyDiffuseRoundFails ==
    /\ [](EmptyDiffCall =>
            /\ pc \in {"activate", "fit", "failed"}
            /\ stage <= 2
            /\ ~(pc = "fit" /\ stage = 2)
            /\ Len(fits) <= 1
            /\ (pc = "failed" /\ stage = 2 =>
                    /\ err = "ValueError"
                    /\ Len(fits) = 1 /\ fits[1].ok /\ fits[1].stage = 1)
            /\ \A k \in DOMAIN f :
                    ~(f[k].run = tpl /\ f[k].removed = Removed(Last(sched).round))
            /\ \A k \in DOMAIN xml :
                    ~(xml[k].run = tpl /\ xml[k].removed = Removed(Last(sched).round)))
    /\ [][(EmptyDiffCall /\ pc = "activate" /\ stage = 2)
            => (pc' = "failed" /\ err' = "ValueError" /\ f' = f /\ xml' = xml)]_vars

\* C6 witness: two rounds were recorded, the third round's call ran its
\* stage-1 fit and failed at stage 2 on the empty diffuse list.
C6_Witness ==
    /\ EmptyDiffCall
    /\ Last(sched).round = 2
    /\ pc = "failed" /\ err = "ValueError" /\ stage = 2
    /\ Len(fits) = 1 /\ fits[1].ok
    /\ Len(RunF(tpl)) = 2 /\ Len(RunXml(tpl)) = 2

\* C7: when the name main is about to delete is not a source of the model,
\* the deletion fails with NotFound; IterateFit is not called for that
\* round, no record is written for it, and the program has ended: nothing
\* changes afterwards.
C7_MissingRemovalAborts ==
    /\ [][(pc = "delete" /\ cfg.removalOrder[rnd + 1] \notin like.srcs)
            => (/\ pc' = "failed" /\ err' = "NotFound"
                /\ UNCHANGED <<f, xml, sched, fits, like, diff_src, rnd>>)]_vars
    /\ [][pc = "failed" => UNCHANGED vars]_vars

\* C7 witness: round 0 was recorded, the first of two removals failed on a
\* source the model lacks, and no call was made for round 1.
C7_Witness ==
    /\ pc = "failed" /\ err = "NotFound"
    /\ rnd = 0
    /\ Len(cfg.removalOrder) = 2
    /\ cfg.removalOrder[1] \notin like.srcs
    /\ Len(RunF(tpl)) = 1 /\ Len(RunXml(tpl)) = 1
    /\ Len(sched) = 1

\* C8: a backend fit that fails is the last fit of the program: it was made
\* once, at the stage IterateFit had reached, the program ended with the
\* backend's failure, no record exists for the round it failed in, and
\* nothing changes afterwards; every stage is fitted at most once per call.
C8_FailFast ==
    /\ [](\A i \in DOMAIN fits :
            /\ fits[i].stage = i
            /\ (~fits[i].ok =>
                    /\ i = Len(fits)
                    /\ stage = i
                    /\ pc = "failed" /\ err = "BackendFitFailure"
                    /\ Len(RunF(tpl)) = rnd /\ Len(RunXml(tpl)) = rnd
                    /\ \A k \in DOMAIN f :
                            ~(f[k].run = tpl /\ f[k].removed = Removed(rnd))))
    /\ [][pc = "failed" => UNCHANGED vars]_vars

\* C8 witness: round 0 was recorded and the stage-3 fit of round 1 failed.
C8_Witness ==
    /\ pc = "failed" /\ err = "BackendFitFailure"
    /\ rnd = 1 /\ stage = 3
    /\ Len(fits) = 3 /\ ~fits[3].ok
    /\ Len(RunF(tpl)) = 1 /\ Len(RunXml(tpl)) = 1
    /\ Len(cfg.removalOrder) = 2

\* C9: ParamChange called a second time on the same non-empty list of
\* sources of the model leaves the flags as the first call left them.
C9_Idempotent ==
    (/\ h.fn = "ParamChange"
     /\ Len(h.out) = 2
     /\ Len(h.sr) >= 1
     /\ Range(h.sr) \subseteq h.out[1].before.srcs)
    => /\ h.out[2].before = h.out[1].after
       /\ h.out[2].after = h.out[1].after
       /\ h.out[2].err = h.out[1].err

\* C9 witness: two calls in mode 'thaw' on two sources, the first of which
\* changed the flags.
C9_Witness ==
    /\ h.fn = "ParamChange"
    /\ Len(h.out) = 2
    /\ h.change = thaw_
    /\ Len(h.sr) = 2
    /\ Range(h.sr) \subseteq h.out[1].before.srcs
    /\ h.out[1].before # h.out[1].after
    /\ h.out[2].after = h.out[1].after

\* The optimizer names in any letter case.
PreciseNames == CaseVariants(newminuit) \cup CaseVariants(minuit)
FastNames == CaseVariants(drmnfb)

\* C10: LikeFit on a name that is none of NewMinuit, Minuit, DRMNFB in any
\* letter case fails with KeyError and makes no backend fit; on one of them
\* it makes exactly one backend fit, with covariance exactly for NewMinuit
\* and Minuit, and fails only if that fit fails.
C10_LikeFitStrategies ==
    h.fn = "LikeFit" =>
        \A k \in DOMAIN h.out :
            LET o == h.out[k]
            IN IF h.fit \in PreciseNames \cup FastNames
               THEN /\ Len(o.calls) = 1
                    /\ o.calls[1].covar = (h.fit \in PreciseNames)
                    /\ o.err = (IF o.answer.ok THEN "none" ELSE "BackendFitFailure")
                    /\ (o.answer.ok => o.lglike = o.answer.val)
               ELSE /\ o.err = "KeyError"
                    /\ o.calls = <<>>

\* C10 witness: a name one letter short of a known one failed with KeyError
\* without a backend fit.
C10_Witness ==
    /\ h.fn = "LikeFit"
    /\ h.fit = <<"M","I","N","U","I">>
    /\ Len(h.out) = 1
    /\ h.out[1].err = "KeyError"
    /\ h.out[1].calls = <<>>

\* ----------------------------------------------------------------- C11

IsPrefix(a, b) == Len(a) <= Len(b) /\ SubSeq(b, 1, Len(a)) = a

\* C11: the round records are append-only. Every step of the program, the
\* steps that end in a failure included, leaves the log-likelihood lines and
\* the saved models written so far as an unchanged prefix of the lines and
\* models after the step; once main has failed nothing is written or undone.
C11_RecordsAppendOnly ==
    [][/\ IsPrefix(f, f')
       /\ IsPrefix(xml, xml')
       /\ (pc' = "failed" => f' = f /\ xml' = xml)]_vars

\* C11 witness: a later round failed, and the record and the model of the
\* round before it are still there.
C11_Witness ==
    /\ pc = "failed"
    /\ rnd >= 1
    /\ Len(RunF(tpl)) = rnd
    /\ Len(RunXml(tpl)) = rnd
    /\ Len(fits) >= 1

\* ----------------------------------------------------------------- C12

\* The list the ParamChange of the current stage is given.
ActSr == IF IterateFitStages[stage].sr = "PS" THEN cfg.PS ELSE diff_src
\* That list is not empty and names a source the model does not hold.
ActSrMissing == ActSr # <<>> /\ \E k \in DOMAIN ActSr : ActSr[k] \notin like.srcs

\* C12: a ParamChange of IterateFit whose list names a source the model does
\* not hold fails with NotFound, and the failure ends the round: no fit of
\* that stage or of a later one is made, and no log-likelihood line and no
\* model is written for the round.
C12_MissingSourceAborts ==
    /\ [][(pc = "activate" /\ ActSrMissing)
            => /\ pc' = "failed"
               /\ err' = "NotFound"
               /\ UNCHANGED <<fits, f, xml, stage, rnd, sched>>]_vars
    /\ []((/\ pc = "failed"
           /\ err = "NotFound"
           /\ sched # <<>>
           /\ Last(sched).run = tpl
           /\ Last(sched).round = rnd
           /\ ActSrMissing)
          => /\ \A i \in DOMAIN fits : fits[i].stage < stage
             /\ Len(RunF(tpl)) = rnd
             /\ Len(RunXml(tpl)) = rnd)

\* C12 witness: the diffuse list names a source the model file does not hold,
\* and IterateFit failed at its second ParamChange after one fit.
C12_Witness ==
    /\ pc = "failed"
    /\ err = "NotFound"
    /\ sched # <<>>
    /\ stage = 2
    /\ ActSrMissing
    /\ Len(fits) = 1
    /\ RunF(tpl) = <<>>

\* ----------------------------------------------------------------- C13

\* The list IterateFit has made active for stage s: the point sources at
\* stages 1 and 4, the diffuse sources at stages 2, 3 and 5.
ActiveAt(s) == IF s \in {1, 4} THEN cfg.PS ELSE diff_src
\* The model as MakeLike built it for the current run.
FileLike ==
    LET srcs == FileSrcs(cfg, diff_name)
    IN MakeLike(direc, DRMNFB, srcs, FileNpar(srcs), FileFree(srcs)).like

\* C13: whenever IterateFit is about to call the backend's fit, a parameter
\* is free exactly when it is the first parameter of a source of the list
\* active at that stage, one per source, whatever the model file had free;
\* at stage 3, which thaws nothing itself, the diffuse sources are still
\* the active ones and no parameter of a point source is free.
C13_NoStaleThaw ==
    pc = "fit" =>
        /\ \A i \in DOMAIN like.params :
              like.params[i].free <=>
                  /\ like.params[i].src \in Range(ActiveAt(stage))
                  /\ \A j \in 1..(i - 1) : like.params[j].src # like.params[i].src
        /\ Cardinality(Thawed(like)) = Len(ActiveAt(stage))
        /\ (stage = 3 =>
              \A i \in DOMAIN like.params :
                  like.params[i].src \in Range(cfg.PS) => ~like.params[i].free)

\* C13 witness: the third fit is about to be made in a run whose model file
\* had free a parameter of a point source, a parameter of a source no list
\* names or a parameter that is not the first of its source.
C13_Witness ==
    /\ pc = "fit"
    /\ stage = 3
    /\ cfg.PS # <<>>
    /\ \E i \in DOMAIN FileLike.params :
          /\ FileLike.params[i].free
          /\ FileLike.params[i].src \in Range(cfg.PS)
    /\ \E i \in DOMAIN FileLike.params :
          /\ FileLike.params[i].free
          /\ i > 1
          /\ FileLike.params[i - 1].src = FileLike.params[i].src
    /\ Thawed(like) # {}

\* ----------------------------------------------------------------- C14

\* The IterateFit call of the current round has made its five fits.
FiveFitsDone ==
    /\ Len(fits) = 5
    /\ \A i \in 1..5 : fits[i].stage = i /\ fits[i].ok
    /\ Last(sched).run = tpl
    /\ Last(sched).round = rnd

\* C14: a round writes one log-likelihood line and one model, each only
\* after the round's IterateFit call has made its five fits, the line before
\* the model; while a round's IterateFit runs the run has as many lines and
\* models as rounds completed before it, and when a round is complete it has
\* as many lines as models as completed rounds.
C14_RecordThenModelPerRound ==
    /\ [](/\ pc \in {"activate", "fit", "write"}
              => Len(RunF(tpl)) = rnd /\ Len(RunXml(tpl)) = rnd
          /\ pc = "xml"
              => Len(RunF(tpl)) = rnd + 1 /\ Len(RunXml(tpl)) = rnd
          /\ pc \in {"delete", "pop", "finish"}
              => Len(RunF(tpl)) = rnd + 1 /\ Len(RunXml(tpl)) = rnd + 1)
    /\ [][/\ f' # f
              => /\ Len(f') = Len(f) + 1
                 /\ xml' = xml
                 /\ FiveFitsDone
                 /\ Last(f').removed = Removed(rnd)
          /\ xml' # xml
              => /\ Len(xml') = Len(xml) + 1
                 /\ f' = f
                 /\ FiveFitsDone
                 /\ Len(RunF(tpl)) = Len(RunXml(tpl)) + 1
                 /\ Last(f).run = tpl
                 /\ Last(f).removed = Last(xml').removed]_vars

\* C14 witness: the second round of a run has written its line, the second
\* of the run, and not yet its model.
C14_Witness ==
    /\ pc = "xml"
    /\ rnd = 1
    /\ FiveFitsDone
    /\ Len(RunF(tpl)) = 2
    /\ Len(RunXml(tpl)) = 1

\* ----------------------------------------------------------------- C15

\* main is inside its rounds: the model is built and round rnd is under way
\* or written.
InRounds == pc \in {"activate", "fit", "write", "xml", "delete", "pop", "finish"}
\* The diffuse list of round 0 of the current run.
Round0Diff == Append(cfg.diff_src, diff_name)
\* The names of the removal order differ, and each is in the model file and
\* in the diffuse list of round 0.
RemovalsPresent ==
    /\ \A a, b \in DOMAIN cfg.removalOrder :
          a # b => cfg.removalOrder[a] # cfg.removalOrder[b]
    /\ Range(cfg.removalOrder) \subseteq FileLike.srcs
    /\ Range(cfg.removalOrder) \subseteq Range(Round0Diff)
\* Every name of the diffuse list of round 0 is in the model file.
DiffusePresent == Range(Round0Diff) \subseteq FileLike.srcs

\* The order of a removal round and what follows from it: the source is
\* deleted from the model while its name is still in the diffuse list, the
\* name is then taken off the list, and only then IterateFit is called; the
\* list of every IterateFit call names only sources of the model; a deleted
\* source is in neither the list nor the model, nor owns a parameter, in any
\* later round.
RemovalOrderKept ==
    /\ pc = "pop"
          => /\ cfg.removalOrder[rnd + 1] \notin like.srcs
             /\ cfg.removalOrder[rnd + 1] \in Range(diff_src)
             /\ Last(sched).round = rnd
    /\ pc \in {"activate", "fit", "write", "xml", "delete", "finish"}
          => /\ Last(sched).round = rnd
             /\ Last(sched).diff_src = diff_src
             /\ Range(diff_src) \subseteq like.srcs
    /\ \A k \in 1..rnd :
          /\ cfg.removalOrder[k] \notin like.srcs
          /\ cfg.removalOrder[k] \notin Range(diff_src)
          /\ \A i \in DOMAIN like.params :
                like.params[i].src # cfg.removalOrder[k]

\* C15 as stated: in every removal round main deletes the source, then takes
\* its name off the diffuse list, then calls IterateFit, then writes the
\* line and the model; so, when the names of the removal order differ and
\* are in the model and in the diffuse list at the start, the list of every
\* IterateFit call names only sources of the model, and a deleted source is
\* never named or held again.
C15_AsStated == (InRounds /\ RemovalsPresent) => RemovalOrderKept

\* C15, amended: the same, when moreover every other name of the diffuse
\* list of round 0 is in the model file.
C15_RemovalOrder ==
    (InRounds /\ RemovalsPresent /\ DiffusePresent) => RemovalOrderKept

\* C15 witness: the third round of main's own lists is at the ParamChange of
\* its diffuse sources, bubble and HI deleted.
C15_Witness ==
    /\ pc = "activate"
    /\ rnd = 2
    /\ stage = 2
    /\ cfg.removalOrder = <<"bubble", "HI">>
    /\ RemovalsPresent
    /\ DiffusePresent
    /\ diff_src = <<"eg_v05", "galprop", diff_name>>

\* ----------------------------------------------------------------- C16

\* Model b is model a but for the free flags of its parameters.
OnlyFlagsDiffer(a, b) ==
    /\ b.srcs = a.srcs
    /\ Len(b.params) = Len(a.params)
    /\ \A i \in DOMAIN a.params :
          [b.params[i] EXCEPT !.free = a.params[i].free] = a.params[i]

\* C16: ParamChange changes only free flags. Whatever its list and mode and
\* whether it returns or raises, the model after the call has the sources
\* and the parameters of the model before it, each with the value and the
\* bounds it had, and the model it returns is the one it was given, as the
\* call left it.
C16_OnlyFlagsChange ==
    h.fn = "ParamChange" =>
        /\ \A k \in DOMAIN h.out :
              OnlyFlagsDiffer(h.out[k].before, h.out[k].after)
        /\ (h.out # <<>> => like = Last(h.out).after)

\* C16 witness: a thaw of eg_v05 and another source returned; before it the
\* model held a fitted value and the bounds MakeLike sets, and the call froze
\* a parameter and thawed one.
C16_Witness ==
    /\ h.fn = "ParamChange"
    /\ Len(h.out) >= 1
    /\ h.out[1].err = "none"
    /\ Len(h.sr) = 2
    /\ "eg_v05" \in Range(h.sr)
    /\ \E i \in DOMAIN h.out[1].before.params :
          /\ h.out[1].before.params[i].value = "fitted"
          /\ h.out[1].before.params[i].free
          /\ ~h.out[1].after.params[i].free
    /\ \E i \in DOMAIN h.out[1].before.params :
          /\ h.out[1].before.params[i].bounds = "0.2-1.3"
          /\ ~h.out[1].before.params[i].free
          /\ h.out[1].after.params[i].free
    /\ \E i \in DOMAIN h.out[1].before.params :
          /\ h.out[1].before.params[i].value = "fitted"
          /\ h.out[1].after.params[i].free

\* ----------------------------------------------------------------- C17

\* The name main appends to diff_src in run r.
DiffNameOf(r) == KeyDispatch(cfg.gas[r]).diff_name

\* C17: the calls of main are independent. The round 0 of every run calls
\* IterateFit with main's point sources and with main's whole diffuse list
\* (HI, bubble, eg_v05, galprop for main's own list) followed by the run's
\* own template name, and on the model as MakeLike built it from the run's
\* file, whatever an earlier run deleted from its model or took off its list;
\* the first model a run saves holds every source of its file.
C17_RunsIndependent ==
    /\ \A i \in DOMAIN sched :
          sched[i].round = 0 =>
              /\ sched[i].PS = cfg.PS
              /\ sched[i].diff_src = Append(cfg.diff_src, DiffNameOf(sched[i].run))
              /\ (cfg.diff_src = diff_src_ =>
                    sched[i].diff_src =
                        <<"HI", "bubble", "eg_v05", "galprop",
                          DiffNameOf(sched[i].run)>>)
    /\ (pc = "activate" /\ rnd = 0 /\ stage = 1) => like = FileLike
    /\ \A r \in 1..tpl :
          RunXml(r) # <<>> =>
              RunXml(r)[1].model.srcs = Range(FileSrcs(cfg, DiffNameOf(r)))

\* C17 witness: the first run deleted bubble and HI and finished with a list
\* of three names; the second run is in its round 0 with the five names of
\* its own list and a model that holds bubble and HI.
C17_Witness ==
    /\ tpl = 2
    /\ pc = "fit"
    /\ rnd = 0
    /\ Len(sched) = 4
    /\ sched[3].run = 1
    /\ Len(sched[3].diff_src) = 3
    /\ Last(RunXml(1)).model.srcs \cap {"bubble", "HI"} = {}
    /\ sched[4].diff_src = <<"HI", "bubble", "eg_v05", "galprop", "Dobashi 2MASS">>
    /\ {"bubble", "HI"} \subseteq like.srcs

\* ----------------------------------------------------------------- C18

\* C18: a ParamChange that fails on an empty list leaves the model as it was
\* before the call, free flags included: the check of the list comes before
\* the freeze loop. So when IterateFit fails at the ParamChange of its
\* diffuse sources on an empty diffuse list, the parameters the ParamChange
\* of the point sources thawed for the fit before it, the first of each
\* point source, are still the free ones.
C18_EmptyListLeavesFlags ==
    /\ [][(pc = "activate" /\ ActSr = <<>>)
            => (like' = like /\ pc' = "failed" /\ err' = "ValueError")]_vars
    /\ []((/\ pc = "failed"
           /\ err = "ValueError"
           /\ EmptyDiffCall
           /\ Last(sched).run = tpl
           /\ stage = 2)
          => /\ Thawed(like) = LowestOf(like, cfg.PS)
             /\ Cardinality(Thawed(like)) = Len(cfg.PS)
             /\ Len(fits) = 1
             /\ fits[1].thawed = Thawed(like))

\* C18 witness: IterateFit failed at its second ParamChange on an empty
\* diffuse list, and the first parameters of two point sources are free.
C18_Witness ==
    /\ pc = "failed"
    /\ err = "ValueError"
    /\ EmptyDiffCall
    /\ stage = 2
    /\ Len(cfg.PS) = 2
    /\ Cardinality(Thawed(like)) = 2
    /\ \A i \in Thawed(like) : like.params[i + 1].src \in Range(cfg.PS)

\* ----------------------------------------------------------------- C19

\* The keys main knows, lower case, with the directory and the source name
\* main's table gives each.
KeyTable ==
    { [key |-> tau353,   direc |-> "Tau353",   diff_name |-> "Tau353"],
      [key |-> nicer,    direc |-> "NICER",    diff_name |-> "NICER"],
      [key |-> nicest,   direc |-> "NICEST",   diff_name |-> "NICEST"],
      [key |-> dobdss,   direc |-> "DobDSS",   diff_name |-> "Dobashi DSS"],
      [key |-> dob2mass, direc |-> "Dob2MASS", diff_name |-> "Dobashi 2MASS"],
      [key |-> fermi,    direc |-> "fermi",    diff_name |-> "fermi"] }
\* A spells the lower-case key k in some mix of letter cases.
Spells(A, k) ==
    /\ Len(A) = Len(k)
    /\ \A i \in DOMAIN k : A[i] = k[i] \/ A[i] = upperChar(k[i])
Recognized(A) == \E e \in KeyTable : Spells(A, e.key)
\* The files the runs before the current one opened.
OpenedBefore ==
    UNION {{<<OutDir(dir), "LogLike.dat">>, <<OutDir(dir), "README">>} :
             dir \in {KeyDispatch(cfg.gas[r]).direc : r \in 1..(tpl - 1)}}

\* C19: a key that spells none of tau353, nicer, nicest, dobdss, dob2mass,
\* fermi in any mix of letter cases makes main fail with KeyError before it
\* opens a file, builds a model, makes a fit or writes a line or a model; a
\* key that spells one of them, in whatever letter cases, gives the run the
\* directory and the source name of that key.
C19_UnknownKeyFailsFirst ==
    /\ []((tpl >= 1 /\ pc \notin {"loop", "main", "done"}) =>
            IF Recognized(cfg.gas[tpl])
            THEN /\ ~(pc = "failed" /\ err = "KeyError")
                 /\ \E e \in KeyTable :
                       /\ Spells(cfg.gas[tpl], e.key)
                       /\ direc = e.direc
                       /\ diff_name = e.diff_name
            ELSE /\ pc = "failed"
                 /\ err = "KeyError"
                 /\ opened = OpenedBefore
                 /\ RunF(tpl) = <<>>
                 /\ RunXml(tpl) = <<>>
                 /\ \A i \in DOMAIN g : g[i].run # tpl
                 /\ \A i \in DOMAIN sched : sched[i].run # tpl
                 /\ (tpl = 1 => like = NoLike /\ fits = <<>>))
    /\ [][(pc = "main" /\ ~Recognized(cfg.gas[tpl]))
            => /\ pc' = "failed"
               /\ err' = "KeyError"
               /\ UNCHANGED <<like, fits, opened, f, g, xml, sched>>]_vars

\* C19 witness: the first key of the list was run to its end and the second,
\* which spells no key main knows, made main fail.
C19_Witness ==
    /\ tpl = 2
    /\ pc = "failed"
    /\ err = "KeyError"
    /\ ~Recognized(cfg.gas[2])
    /\ Recognized(cfg.gas[1])
    /\ cfg.gas[1] # nicest
    /\ Len(RunXml(1)) = 3
    /\ opened = {<<"NICEST", "LogLike.dat">>, <<"NICEST", "README">>}

\* ----------------------------------------------------------------- C20

\* C20: ParamChange with a non-empty list and a mode that does not spell
\* 'thaw' in any letter case ('freeze', the default, among them) returns
\* with every parameter of the model frozen and none thawed, and looks no
\* listed source up: it returns without error also when the list names a
\* source the model does not hold.
C20_OtherModesFreezeAll ==
    (/\ h.fn = "ParamChange"
     /\ Len(h.sr) >= 1
     /\ ~Spells(h.change, thaw_))
    => \A k \in DOMAIN h.out :
          /\ h.out[k].err = "none"
          /\ Thawed(h.out[k].after) = {}
          /\ \A i \in DOMAIN h.out[k].after.params :
                ~h.out[k].after.params[i].free

\* C20 witness: a call in the mode 'freeze' with a list naming a source of
\* the model and a source the model does not hold returned, on a model that
\* had the first parameter of the listed source free.
C20_Witness ==
    /\ h.fn = "ParamChange"
    /\ h.change = freeze_
    /\ Len(h.out) >= 1
    /\ \E a, b \in DOMAIN h.sr :
          /\ h.sr[a] \notin h.out[1].before.srcs
          /\ h.sr[b] \in h.out[1].before.srcs
          /\ FirstPar(h.out[1].before, h.sr[b]) \in Thawed(h.out[1].before)
    /\ h.out[1].err = "none"
    /\ Thawed(h.out[1].after) = {}
====
